---- MODULE Spec2Model ----
(***************************************************************************)
(* A model of app.py: a Streamlit chat page that, for each submitted       *)
(* question, queries DuckDuckGo, Wikipedia and arXiv, builds an evidence   *)
(* string from the three results and asks a Groq model for an answer.      *)
(*                                                                         *)
(* Text.  A Python str is modelled as a sequence of pieces.  A piece       *)
(* [src, idx, len] stands for the first len characters of the text named   *)
(* (src, idx): a literal of the source, or a text handed in by the user or *)
(* by a backend.  Concatenation is \o, s[:n] is Slice(s, n), len(s) is     *)
(* Length(s).  Pieces are never empty, so the empty str is <<>> alone.     *)
(***************************************************************************)
EXTENDS Integers, Sequences, FiniteSets, TLC

Piece(src, idx, len) == [src |-> src, idx |-> idx, len |-> len]

Text(src, idx, len) == IF len = 0 THEN <<>> ELSE <<Piece(src, idx, len)>>

RECURSIVE Length(_)
Length(s) == IF s = <<>> THEN 0 ELSE Head(s).len + Length(Tail(s))

\* s[:n] for n >= 0
RECURSIVE Slice(_, _)
Slice(s, n) ==
    IF s = <<>> \/ n <= 0 THEN <<>>
    ELSE IF Head(s).len <= n
         THEN <<Head(s)>> \o Slice(Tail(s), n - Head(s).len)
         ELSE <<[Head(s) EXCEPT !.len = n]>>

\* sep.join(lines)
RECURSIVE Join(_, _)
Join(lines, sep) ==
    IF lines = <<>> THEN <<>>
    ELSE IF Len(lines) = 1 THEN Head(lines)
    ELSE Head(lines) \o sep \o Join(Tail(lines), sep)

\* s.strip(): whitespace is the pieces named "ws"
RECURSIVE LStrip(_)
LStrip(s) == IF s # <<>> /\ Head(s).src = "ws" THEN LStrip(Tail(s)) ELSE s

RECURSIVE RStrip(_)
RStrip(s) ==
    IF s # <<>> /\ s[Len(s)].src = "ws" THEN RStrip(SubSeq(s, 1, Len(s) - 1)) ELSE s

Strip(s) == RStrip(LStrip(s))

(***************************************************************************)
(* The literals of the source, each with its length in characters.        *)
(***************************************************************************)
GREETING == Text("Hi! Ask me about people, topics, or papers. I'll search and summarize.", 0, 70)
KEY_MSG == Text("Please enter your Groq API key in the sidebar.", 0, 46)
LLM_SORRY == Text("Sorry, something went wrong with the LLM: ", 0, 42)
DDG_ERROR_TITLE == Text("DuckDuckGo error", 0, 16)
WIKI_ERROR == Text("Wikipedia error: ", 0, 17)
ARXIV_ERROR == Text("arXiv error: ", 0, 13)
HDR_DDG == Text("== DuckDuckGo ==\n", 0, 17)
HDR_WIKI == Text("== Wikipedia ==\n", 0, 16)
HDR_ARXIV == Text("== arXiv ==\n", 0, 12)
BLANK == Text("\n\n", 0, 2)
NL == Text("\n", 0, 1)
BULLET == Text("- ", 0, 2)
\* " — ": space, em dash, space
DASH == Text(" -- ", 0, 3)
NL_INDENT == Text("\n  ", 0, 3)

(***************************************************************************)
(* Python values a dict lookup can give: the key absent, None, or a str.   *)
(***************************************************************************)
Absent == [k |-> "absent", s |-> <<>>]
None == [k |-> "none", s |-> <<>>]
Str(s) == [k |-> "str", s |-> s]

\* r.get(key): None for an absent key
Get(r, key) == IF r[key].k = "absent" THEN None ELSE r[key]

\* r.get(key, default)
GetDefault(r, key, default) == IF r[key].k = "absent" THEN Str(default) ELSE r[key]

\* bool(v) for None or a str
Truthy(v) == v.k = "str" /\ v.s # <<>>

\* a or b
Or(a, b) == IF Truthy(a) THEN a ELSE b

(***************************************************************************)
(* Numbers of the source.                                                  *)
(***************************************************************************)
MaxResults == 5
TopN == 3
SnippetMax == 240
WikiMaxChars == 800
ArxivMaxChars == 1200

(***************************************************************************)
(* Bounds of the model.                                                    *)
(***************************************************************************)
MaxTurns == 2

Inputs == {Text("user_input", 0, 13)}
ApiKeys == {"", "gsk_key"}
\* str(e) of an exception: short, or longer than any cap of the page
ErrTexts == {Text("exception", 0, 40), Text("exception", 0, 2000)}
LlmErrTexts == {Text("llm_exception", 0, 60)}
\* lengths of the article or summary a backend holds
DocLens == {500, 3000}
\* lengths of a web result's body
BodyLens == {240, 500}

(***************************************************************************)
(* What the three backends can answer.  A backend either raises (network,  *)
(* timeout, parse, rejection), with str(e) the text of the exception, or   *)
(* returns.  DDGS.text returns at most max_results dicts; a dict holds     *)
(* title/href/body, or the other spelling title_full/link the page also    *)
(* reads, and a field may be None.                                         *)
(***************************************************************************)
Raised(e) == [raised |-> TRUE, exc |-> e, value |-> <<>>]
Returned(v) == [raised |-> FALSE, exc |-> <<>>, value |-> v]

\* the i-th ranked result with a body of n characters
StdResult(i, n) ==
    [title |-> Str(Text("title", i, 30)), title_full |-> Absent,
     href |-> Str(Text("url", i, 45)), link |-> Absent,
     body |-> Str(Text("body", i, n))]

\* the other spelling of the keys, and no body
AltResult(i) ==
    [title |-> Absent, title_full |-> Str(Text("title", i, 30)),
     href |-> Absent, link |-> Str(Text("url", i, 45)),
     body |-> Absent]

\* a result whose body is None
NoneBodyResult(i) == [StdResult(i, 100) EXCEPT !.body = None]

ResultVariants(i) ==
    {StdResult(i, n) : n \in BodyLens} \cup {AltResult(i), NoneBodyResult(i)}

\* k results, plain but for one: the first one any variant, or the last one
\* with a body that is None
ResultLists(k) ==
    IF k = 0 THEN {<<>>}
    ELSE {[i \in 1..k |-> IF i = 1 THEN v ELSE StdResult(i, 100)] : v \in ResultVariants(1)}
         \cup {[i \in 1..k |-> IF i = k THEN NoneBodyResult(i) ELSE StdResult(i, 100)]}

DdgBackend(max_results) ==
    {Raised(e) : e \in ErrTexts}
    \cup {Returned(l) : l \in UNION {ResultLists(k) : k \in 0..max_results}}

DocBackend(name) ==
    {Raised(e) : e \in ErrTexts}
    \cup {Returned(Text(name, 0, n)) : n \in DocLens}

\* out.content of the model's reply: None, or text with whitespace around it
LlmBackend ==
    {Raised(e) : e \in LlmErrTexts}
    \cup {Returned(None),
          Returned(Str(Text("ws", 0, 1) \o Text("answer", 0, 300) \o Text("ws", 1, 1)))}

(***************************************************************************)
(* The search helpers, each applied to what its backend answers.           *)
(***************************************************************************)
ddg_search(out) ==
    IF out.raised
    THEN <<[title |-> Str(DDG_ERROR_TITLE), title_full |-> Absent,
            href |-> Str(<<>>), link |-> Absent, body |-> Str(out.exc)]>>
    ELSE out.value

\* WikipediaAPIWrapper / ArxivAPIWrapper .run with doc_content_chars_max
WrapperRun(doc, doc_content_chars_max) == Slice(doc, doc_content_chars_max)

wiki_search(out, max_chars) ==
    IF out.raised THEN WIKI_ERROR \o out.exc ELSE WrapperRun(out.value, max_chars)

arxiv_search(out, max_chars) ==
    IF out.raised THEN ARXIV_ERROR \o out.exc ELSE WrapperRun(out.value, max_chars)

(***************************************************************************)
(* The evidence string.                                                    *)
(***************************************************************************)
Min(a, b) == IF a <= b THEN a ELSE b

\* every result, not the first three
Top_All(ddg) == ddg

\* ddg[:3]
Top(ddg) == SubSeq(ddg, 1, Min(Len(ddg), TopN))

Title(r) == Or(Or(Get(r, "title"), Get(r, "title_full")), Str(<<>>))
Href(r) == Or(Or(Get(r, "href"), Get(r, "link")), Str(<<>>))
Body(r) == GetDefault(r, "body", <<>>)

\* body[:240] raises TypeError for a body that is None
SliceRaises(r) == Body(r).k # "str"

DdgLine(r) ==
    BULLET \o Title(r).s \o DASH \o Href(r).s \o NL_INDENT \o Slice(Body(r).s, SnippetMax)

DdgLines(ddg) == [i \in 1..Len(Top(ddg)) |-> DdgLine(Top(ddg)[i])]

ComposeRaises(ddg) == \E i \in 1..Len(Top(ddg)) : SliceRaises(Top(ddg)[i])

\* the encyclopedia and preprint sections in the other order
Evidence_Swapped(ddg, wiki, arxv) ==
    HDR_DDG \o Join(DdgLines(ddg), NL) \o BLANK
    \o HDR_ARXIV \o arxv \o BLANK
    \o HDR_WIKI \o wiki

\* wiki and arxv are str on every path of the helpers, so the json.dumps branch
\* of the source is never taken
Evidence(ddg, wiki, arxv) ==
    HDR_DDG \o Join(DdgLines(ddg), NL) \o BLANK
    \o HDR_WIKI \o wiki \o BLANK
    \o HDR_ARXIV \o arxv

(***************************************************************************)
(* The page.  st.session_state["messages"] is the transcript; api_key is   *)
(* the sidebar's text input; pc is the place of the script run that a      *)
(* submitted question starts ("idle": no run, the page waits for input).   *)
(* user_input, ddg, wiki, arxv, evidence and final are the locals of that  *)
(* run.  The other variables record the latest run: the steps it has       *)
(* finished (done), the searches whose backend raised (failed), the calls  *)
(* of synthesize_with_llm (calls), the requests sent to the model endpoint *)
(* (requests, each the credential it carried), the exception the synthesis *)
(* raised (llm_exc), how the run ended (outcome), and the number of        *)
(* questions submitted so far (turns).                                     *)
(***************************************************************************)
VARIABLES messages, api_key, pc, user_input, ddg, wiki, arxv, evidence, final,
          done, failed, calls, requests, llm_exc, outcome, turns

vars == <<messages, api_key, pc, user_input, ddg, wiki, arxv, evidence, final,
          done, failed, calls, requests, llm_exc, outcome, turns>>

locals == <<user_input, ddg, wiki, arxv, evidence, final>>

Message(role, content) == [role |-> role, content |-> content]

NoExc == [raised |-> FALSE, text |-> <<>>]
Exc(e) == [raised |-> TRUE, text |-> e]

\* the locals of a script run that has not assigned them
NoLocals ==
    /\ user_input' = <<>>
    /\ ddg' = <<>>
    /\ wiki' = <<>>
    /\ arxv' = <<>>
    /\ evidence' = <<>>
    /\ final' = <<>>

Init ==
    /\ messages = <<Message("assistant", GREETING)>>
    /\ api_key \in ApiKeys
    /\ pc = "idle"
    /\ user_input = <<>>
    /\ ddg = <<>>
    /\ wiki = <<>>
    /\ arxv = <<>>
    /\ evidence = <<>>
    /\ final = <<>>
    /\ done = {}
    /\ failed = {}
    /\ calls = 0
    /\ requests = <<>>
    /\ llm_exc = NoExc
    /\ outcome = "none"
    /\ turns = 0

\* the sidebar input is edited: the script reruns with no chat input
SetApiKey(key) ==
    /\ pc = "idle"
    /\ key # api_key
    /\ api_key' = key
    /\ UNCHANGED <<messages, pc, locals, done, failed, calls, requests, llm_exc,
                   outcome, turns>>

\* a question is submitted: the user message is appended
Submit(q) ==
    /\ pc = "idle"
    /\ turns < MaxTurns
    /\ turns' = turns + 1
    /\ messages' = Append(messages, Message("user", q))
    /\ user_input' = q
    /\ pc' = "check_key"
    /\ done' = {}
    /\ failed' = {}
    /\ calls' = 0
    /\ requests' = <<>>
    /\ llm_exc' = NoExc
    /\ outcome' = "running"
    /\ UNCHANGED <<api_key, ddg, wiki, arxv, evidence, final>>

\* the page without its credential check
KeyMissing_Never(key) == FALSE

\* not api_key
KeyMissing(key) == key = ""

\* if not api_key: append the fixed message and st.stop()
CheckKey ==
    /\ pc = "check_key"
    /\ IF KeyMissing(api_key)
       THEN /\ messages' = Append(messages, Message("assistant", KEY_MSG))
            /\ pc' = "idle"
            /\ outcome' = "stopped"
            /\ NoLocals
       ELSE /\ pc' = "ddg"
            /\ UNCHANGED <<messages, outcome, locals>>
    /\ UNCHANGED <<api_key, done, failed, calls, requests, llm_exc, turns>>

DdgSearch ==
    /\ pc = "ddg"
    /\ \E out \in DdgBackend(MaxResults) :
          /\ ddg' = ddg_search(out)
          /\ failed' = IF out.raised THEN failed \cup {"ddg"} ELSE failed
    /\ done' = done \cup {"ddg"}
    /\ pc' = "wiki"
    /\ UNCHANGED <<messages, api_key, user_input, wiki, arxv, evidence, final,
                   calls, requests, llm_exc, outcome, turns>>

WikiSearch ==
    /\ pc = "wiki"
    /\ \E out \in DocBackend("wikipedia") :
          /\ wiki' = wiki_search(out, WikiMaxChars)
          /\ failed' = IF out.raised THEN failed \cup {"wiki"} ELSE failed
    /\ done' = done \cup {"wiki"}
    /\ pc' = "arxiv"
    /\ UNCHANGED <<messages, api_key, user_input, ddg, arxv, evidence, final,
                   calls, requests, llm_exc, outcome, turns>>

ArxivSearch ==
    /\ pc = "arxiv"
    /\ \E out \in DocBackend("arxiv") :
          /\ arxv' = arxiv_search(out, ArxivMaxChars)
          /\ failed' = IF out.raised THEN failed \cup {"arxiv"} ELSE failed
    /\ done' = done \cup {"arxiv"}
    /\ pc' = "compose"
    /\ UNCHANGED <<messages, api_key, user_input, ddg, wiki, evidence, final,
                   calls, requests, llm_exc, outcome, turns>>

\* the expanders and the evidence string; an exception here is caught by
\* nothing, and ends the script run
Compose ==
    /\ pc = "compose"
    /\ IF ComposeRaises(ddg)
       THEN /\ pc' = "idle"
            /\ outcome' = "exception"
            /\ NoLocals
            /\ UNCHANGED done
       ELSE /\ evidence' = Evidence(ddg, wiki, arxv)
            /\ done' = done \cup {"evidence"}
            /\ pc' = "synth"
            /\ UNCHANGED <<outcome, user_input, ddg, wiki, arxv, final>>
    /\ UNCHANGED <<messages, api_key, failed, calls, requests, llm_exc, turns>>

\* a client built without the credential, left to its environment default
ClientKey_Env(key) == "env_default_key"

\* groq_api_key=api_key: the credential the client sends
ClientKey(key) == key

\* the failure message without the error text
SynthesisFailed_NoText(e) ==
    /\ final' = LLM_SORRY
    /\ llm_exc' = Exc(e)
    /\ pc' = "append"

\* except Exception as e: final = f"Sorry, ...: {e}"
SynthesisFailed(e) ==
    /\ final' = LLM_SORRY \o e
    /\ llm_exc' = Exc(e)
    /\ pc' = "append"

\* synthesize_with_llm is called; ChatGroq(...) builds the client, or raises
LlmConstruct ==
    /\ pc = "synth"
    /\ calls' = calls + 1
    /\ \/ /\ pc' = "invoke"
          /\ UNCHANGED <<final, llm_exc>>
       \/ \E e \in LlmErrTexts : SynthesisFailed(e)
    /\ UNCHANGED <<messages, api_key, user_input, ddg, wiki, arxv, evidence,
                   done, failed, requests, outcome, turns>>

\* (out.content or "").strip()
Answer(content) == Strip(Or(content, Str(<<>>)).s)

\* a synthesis that calls the model again after a failure
LlmInvoke_Retry ==
    /\ pc = "invoke"
    /\ requests' = Append(requests, ClientKey(api_key))
    /\ \E out \in LlmBackend :
          IF out.raised
          THEN /\ pc' = "synth"
               /\ UNCHANGED <<final, llm_exc>>
          ELSE /\ final' = Answer(out.value)
               /\ pc' = "append"
               /\ UNCHANGED llm_exc
    /\ UNCHANGED <<messages, api_key, user_input, ddg, wiki, arxv, evidence,
                   done, failed, calls, outcome, turns>>

\* llm.invoke([system, user]): one request, answered or raising
LlmInvoke ==
    /\ pc = "invoke"
    /\ requests' = Append(requests, ClientKey(api_key))
    /\ \E out \in LlmBackend :
          IF out.raised
          THEN SynthesisFailed(out.exc)
          ELSE /\ final' = Answer(out.value)
               /\ pc' = "append"
               /\ UNCHANGED llm_exc
    /\ UNCHANGED <<messages, api_key, user_input, ddg, wiki, arxv, evidence,
                   done, failed, calls, outcome, turns>>

\* the answer, or the failure text, becomes the assistant message
AppendFinal ==
    /\ pc = "append"
    /\ messages' = Append(messages, Message("assistant", final))
    /\ pc' = "idle"
    /\ outcome' = "completed"
    /\ NoLocals
    /\ UNCHANGED <<api_key, done, failed, calls, requests, llm_exc, turns>>

Next ==
    \/ \E key \in ApiKeys : SetApiKey(key)
    \/ \E q \in Inputs : Submit(q)
    \/ CheckKey
    \/ DdgSearch
    \/ WikiSearch
    \/ ArxivSearch
    \/ Compose
    \/ LlmConstruct
    \/ LlmInvoke
    \/ AppendFinal

Spec == Init /\ [][Next]_vars

(***************************************************************************)
(* synthesize_with_llm on its own: called with any credential, question    *)
(* and evidence string, by a caller that catches what it raises.           *)
(***************************************************************************)
EvidenceSamples ==
    {Evidence(ddg_search(d), wiki_search(w, WikiMaxChars), arxiv_search(a, ArxivMaxChars)) :
        <<d, w, a>> \in {x \in DdgBackend(1) \X DocBackend("wikipedia") \X DocBackend("arxiv") :
                            ~ComposeRaises(ddg_search(x[1]))}}

InitSynth ==
    /\ messages = <<Message("assistant", GREETING)>>
    /\ api_key \in ApiKeys
    /\ pc = "synth"
    /\ user_input \in Inputs
    /\ ddg = <<>>
    /\ wiki = <<>>
    /\ arxv = <<>>
    /\ evidence \in EvidenceSamples
    /\ final = <<>>
    /\ done = {}
    /\ failed = {}
    /\ calls = 0
    /\ requests = <<>>
    /\ llm_exc = NoExc
    /\ outcome = "running"
    /\ turns = 0

NextSynth ==
    \/ LlmConstruct
    \/ LlmInvoke

SpecSynth == InitSynth /\ [][NextSynth]_vars

(***************************************************************************)
(* Reading a transcript and an evidence string back.                       *)
(***************************************************************************)
Last(s) == s[Len(s)]

Alternating(ms) ==
    \A i \in 1..Len(ms) : ms[i].role = IF i % 2 = 1 THEN "assistant" ELSE "user"

IsPrefixOf(s, t) == Len(s) <= Len(t) /\ SubSeq(t, 1, Len(s)) = s

\* the text s is the first characters of the text t
IsTextPrefix(s, t) == s = Slice(t, Length(s))

Headers(e) == SelectSeq(e, LAMBDA p : <<p>> \in {HDR_DDG, HDR_WIKI, HDR_ARXIV})

Pos(e, h) == CHOOSE i \in 1..Len(e) : <<e[i]>> = h

Count(e, h) == Cardinality({i \in 1..Len(e) : <<e[i]>> = h})

\* the text between a header and the blank line that ends its section
WebSection(e) == SubSeq(e, Pos(e, HDR_DDG) + 1, Pos(e, HDR_WIKI) - 2)
WikiSection(e) == SubSeq(e, Pos(e, HDR_WIKI) + 1, Pos(e, HDR_ARXIV) - 2)
ArxivSection(e) == SubSeq(e, Pos(e, HDR_ARXIV) + 1, Len(e))

\* the entries of the web section: each starts at a bullet and runs to the next
BulletAt(web) == {i \in 1..Len(web) : <<web[i]>> = BULLET}

EntryEnd(web, i) ==
    IF \E j \in BulletAt(web) : j > i
    THEN (CHOOSE j \in BulletAt(web) : j > i /\ \A k \in BulletAt(web) : k > i => j <= k) - 2
    ELSE Len(web)

Entry(web, i) == SubSeq(web, i, EntryEnd(web, i))

\* the n-th smallest member of a set of numbers
RECURSIVE Nth(_, _)
Nth(S, n) ==
    LET m == CHOOSE x \in S : \A y \in S : x <= y
    IN IF n = 1 THEN m ELSE Nth(S \ {m}, n - 1)

Entries(web) == [n \in 1..Cardinality(BulletAt(web)) |-> Entry(web, Nth(BulletAt(web), n))]

\* "title — url", then the snippet on the next line
EntryHead(en) == SubSeq(en, 1, Pos(en, NL_INDENT) - 1)
EntrySnippet(en) == SubSeq(en, Pos(en, NL_INDENT) + 1, Len(en))

EvidenceBuilt == pc \in {"synth", "invoke", "append"}
Searched == {"ddg", "wiki", "arxiv"}

(***************************************************************************)
(* The claims.                                                             *)
(***************************************************************************)

\* C1: whenever no run is in flight, the transcript holds the greeting and
\* two messages for each question submitted so far, however each run ended.
C1_Claim == pc = "idle" => Len(messages) = 1 + 2 * turns

\* C2: a question submitted while the credential is empty gets exactly one new
\* assistant message, the fixed "enter your key" text; the run then stops, and
\* synthesize_with_llm is not called and no request is sent in that run.
C2_Theorem ==
    /\ [][pc = "check_key" /\ api_key = ""
            => /\ messages' = Append(messages, Message("assistant", KEY_MSG))
               /\ pc' = "idle"
               /\ outcome' = "stopped"]_vars
    /\ [](pc # "idle" /\ api_key = "" => pc = "check_key")
    /\ [](outcome = "stopped"
            => /\ pc = "idle"
               /\ calls = 0
               /\ requests = <<>>
               /\ done = {}
               /\ Last(messages) = Message("assistant", KEY_MSG)
               /\ messages[Len(messages) - 1].role = "user")

C2_Witness ==
    /\ pc = "idle"
    /\ outcome = "stopped"
    /\ Len(messages) = 5
    /\ Last(messages).content = KEY_MSG

\* C3: when the model call of synthesize_with_llm raises, the error is caught:
\* the run goes on to append one assistant message, "Sorry, something went wrong
\* with the LLM: " followed by the error text, leaves the earlier entries as they
\* were, and ends with the page waiting for the next question.
C3_Theorem ==
    /\ [][pc = "append" /\ llm_exc.raised
            => /\ messages' = Append(messages, Message("assistant", LLM_SORRY \o llm_exc.text))
               /\ pc' = "idle"
               /\ outcome' = "completed"]_vars
    /\ [][~llm_exc.raised /\ llm_exc'.raised
            => /\ pc' = "append"
               /\ llm_exc'.text \in LlmErrTexts
               /\ messages' = messages]_vars
    /\ [](llm_exc.raised => pc = "append" \/ (pc = "idle" /\ outcome = "completed"))

C3_Witness ==
    \E i \in 1..(Len(messages) - 1) :
        /\ messages[i].role = "assistant"
        /\ IsPrefixOf(LLM_SORRY, messages[i].content)
        /\ Len(messages[i].content) = 2
        /\ messages[i + 1].role = "user"

\* C4: a backend failure of a search comes back as a value (one error result
\* from ddg_search, an error string from the other two), and the run then
\* composes the evidence string, with the placeholder in the section of the
\* failed source, and goes on to the synthesis.
C4_Returned ==
    /\ "ddg" \in failed /\ pc # "idle"
         => /\ Len(ddg) = 1
            /\ ddg[1].title = Str(DDG_ERROR_TITLE)
            /\ ddg[1].body.k = "str"
    /\ "wiki" \in failed /\ pc # "idle" => IsPrefixOf(WIKI_ERROR, wiki) /\ Len(wiki) = 2
    /\ "arxiv" \in failed /\ pc # "idle" => IsPrefixOf(ARXIV_ERROR, arxv) /\ Len(arxv) = 2

C4_Embedded ==
    EvidenceBuilt =>
        /\ "ddg" \in failed
             => LET es == Entries(WebSection(evidence))
                IN /\ Len(es) = 1
                   /\ EntryHead(es[1]) = BULLET \o DDG_ERROR_TITLE \o DASH
                   /\ IsTextPrefix(EntrySnippet(es[1]), ddg[1].body.s)
        /\ "wiki" \in failed => WikiSection(evidence) = wiki
        /\ "arxiv" \in failed => ArxivSection(evidence) = arxv

C4_Proceeds ==
    failed # {} /\ Searched \subseteq done /\ pc \notin {"compose"}
        => "evidence" \in done /\ (pc = "synth" \/ calls = 1)

\* C4: the three parts together: the failure is returned as a value, the
\* evidence string embeds its placeholder, and the run reaches the synthesis.
C4_Claim == C4_Returned /\ C4_Embedded /\ C4_Proceeds

\* C5: synthesize_with_llm is called only after the three searches have
\* returned and the evidence string has been built from their results; it is
\* called at most once in a run and sends at most one request, also after a
\* failure.
C5_Theorem ==
    /\ calls <= 1
    /\ Len(requests) <= calls
    /\ calls > 0 \/ EvidenceBuilt => Searched \cup {"evidence"} \subseteq done
    /\ EvidenceBuilt
         => /\ WikiSection(evidence) = wiki
            /\ ArxivSection(evidence) = arxv
            /\ Len(Entries(WebSection(evidence))) = Len(Top(ddg))

C5_Witness ==
    /\ pc = "idle"
    /\ outcome = "completed"
    /\ llm_exc.raised
    /\ calls = 1
    /\ Len(requests) = 1

\* C6: the evidence string holds exactly three headed sections, DuckDuckGo,
\* Wikipedia, arXiv in this order, with a blank line before the second and the
\* third header, whatever the searches returned.
C6_Theorem ==
    EvidenceBuilt =>
        /\ Headers(evidence) = HDR_DDG \o HDR_WIKI \o HDR_ARXIV
        /\ <<evidence[1]>> = HDR_DDG
        /\ <<evidence[Pos(evidence, HDR_WIKI) - 1]>> = BLANK
        /\ <<evidence[Pos(evidence, HDR_ARXIV) - 1]>> = BLANK
        /\ Count(evidence, BLANK) = 2

C6_Witness == EvidenceBuilt /\ failed = Searched

\* C7: the web section holds the first min(k, 3) of the k web results, in
\* their order, each as "- title — url" and then the first 240 characters at
\* most of its snippet.
C7_Theorem ==
    EvidenceBuilt =>
        LET es == Entries(WebSection(evidence))
        IN /\ Len(es) = Min(Len(ddg), TopN)
           /\ Len(es) <= TopN
           /\ \A i \in 1..Len(es) :
                LET r == ddg[i]
                    t == IF r.title.s # <<>> THEN r.title.s ELSE r.title_full.s
                    u == IF r.href.s # <<>> THEN r.href.s ELSE r.link.s
                IN /\ EntryHead(es[i]) = BULLET \o t \o DASH \o u
                   /\ IsTextPrefix(EntrySnippet(es[i]), r.body.s)
                   /\ Length(EntrySnippet(es[i])) = Min(Length(r.body.s), SnippetMax)

C7_Witness ==
    /\ EvidenceBuilt
    /\ Len(ddg) = MaxResults
    /\ \E i \in 1..TopN : Length(ddg[i].body.s) > SnippetMax

\* C8: what wiki_search and arxiv_search return is never longer than the
\* max_chars they were called with, whether the backend answered or raised.
C8_Claim ==
    /\ "wiki" \in done /\ pc # "idle" => Length(wiki) <= WikiMaxChars
    /\ "arxiv" \in done /\ pc # "idle" => Length(arxv) <= ArxivMaxChars

\* C9 as stated: synthesize_with_llm called with an empty credential fails
\* before any request is sent; no request is sent without a credential.
C9_Claim ==
    /\ api_key = "" => requests = <<>>
    /\ api_key = "" /\ pc = "append" => llm_exc.raised
    /\ \A i \in 1..Len(requests) : requests[i] # ""

\* C9 as amended: synthesize_with_llm checks no credential.  It builds the
\* client with the credential it is given, empty or not, and unless building
\* the client raises it sends one request carrying that credential; it fails
\* only with what the client or the endpoint raised.
C9_Theorem ==
    /\ calls <= 1
    /\ Len(requests) <= calls
    /\ \A i \in 1..Len(requests) : requests[i] = api_key
    /\ pc = "invoke" => calls = 1 /\ requests = <<>> /\ ~llm_exc.raised
    /\ pc = "append" /\ ~llm_exc.raised => requests = <<api_key>>
    /\ llm_exc.raised => llm_exc.text \in LlmErrTexts /\ final = LLM_SORRY \o llm_exc.text

C9_Witness ==
    /\ api_key = ""
    /\ pc = "append"
    /\ requests = <<"">>
    /\ ~llm_exc.raised

\* C10: the transcript only grows at its end, and whenever no run is in
\* flight its roles read assistant, user, assistant, ..., ending with an
\* assistant message.
C10_Claim ==
    /\ [][IsPrefixOf(messages, messages')]_vars
    /\ [](pc = "idle" => Alternating(messages) /\ Last(messages).role = "assistant")

====
